---- MODULE Spec2Model ----
(***************************************************************************)
(* A model of asana-go: the Date JSON codec and the entity mixins of the   *)
(* asana package, and the listing functions of package util.               *)
(*                                                                         *)
(* Text is modelled character by character: a text is a sequence of        *)
(* one-character strings, so that formatting and parsing are computed and  *)
(* never assumed to be inverse to each other.                              *)
(***************************************************************************)
EXTENDS Integers, Sequences, FiniteSets, TLC

VARIABLES
    \* ---- Date codec ----
    d,        \* the receiver *d of MarshalJSON / UnmarshalJSON
    out,      \* the bytes returned by the last MarshalJSON (<<>>: none yet)
    enc,      \* the Date that the last MarshalJSON encoded
    value,    \* the argument of the last UnmarshalJSON
    err,      \* the error returned by the last codec call ("nil": none)
    old,      \* the receiver as it was when the last UnmarshalJSON was entered
    dpc,      \* "new" | "marshalled" | "unmarshalled": the last codec call
    \* ---- listing functions ----
    client,   \* what the API client answers to the list call
    op,       \* "none", or the listing function that has run
    printed,  \* the lines the listing function wrote to standard output
    ret,      \* the error the listing function returned ("nil": none)
    calls,    \* the client methods the listing function called, in order
    \* ---- entities ----
    kind,     \* the struct type of the entity
    entity,   \* the entity: json key |-> value
    body,     \* the last body json.Marshal produced from the entity
    epc       \* "new" | "decoded" | "encoded"

codecVars == <<d, out, enc, value, err, old, dpc>>
listVars == <<client, op, printed, ret, calls>>
entityVars == <<kind, entity, body, epc>>
vars == <<codecVars, listVars, entityVars>>

----------------------------------------------------------------------------
(* Characters and numbers                                                  *)

Digit == <<"0", "1", "2", "3", "4", "5", "6", "7", "8", "9">>

DigitChars == {Digit[i] : i \in 1..10}

DigitVal(c) == (CHOOSE i \in 1..10 : Digit[i] = c) - 1

QUOTE == "\""

BACKSLASH == "\\"

RECURSIVE DigitsOf(_)
DigitsOf(n) ==
    IF n < 10 THEN <<Digit[n + 1]>>
    ELSE DigitsOf(n \div 10) \o <<Digit[(n % 10) + 1]>>

RECURSIVE PadZero(_, _)
PadZero(s, width) ==
    IF Len(s) < width THEN PadZero(<<"0">> \o s, width) ELSE s

\* time.appendInt: the sign first, then the digits zero-padded to width.
AppendInt(x, width) ==
    IF x < 0 THEN <<"-">> \o PadZero(DigitsOf(0 - x), width)
    ELSE PadZero(DigitsOf(x), width)

\* time.isDigit(s, i), 1-based.
IsDigit(s, i) == i <= Len(s) /\ s[i] \in DigitChars

RECURSIVE AllDigits(_)
AllDigits(s) == s = <<>> \/ (Head(s) \in DigitChars /\ AllDigits(Tail(s)))

RECURSIVE NumVal(_)
NumVal(s) ==
    IF s = <<>> THEN 0
    ELSE NumVal(SubSeq(s, 1, Len(s) - 1)) * 10 + DigitVal(s[Len(s)])

----------------------------------------------------------------------------
(* The calendar                                                            *)

IsLeap(y) == y % 4 = 0 /\ (y % 100 # 0 \/ y % 400 = 0)

DaysIn(m, y) ==
    IF m = 2 THEN (IF IsLeap(y) THEN 29 ELSE 28)
    ELSE IF m \in {4, 6, 9, 11} THEN 30 ELSE 31

\* The largest year of the model; one more than the largest year that
\* four digits can write.
MaxYear == 10000

Years == {0, 1, 2012, 2100, 9999, MaxYear}

Months == {2, 3, 12}

Days == {1, 26, 29}

\* A Date is a time.Time: a calendar day, a time of day and a location.  The
\* record holds the civil fields as read in the value's own location, which
\* is what Format reads.
Dates ==
    {t \in [year : Years, month : Months, day : Days,
            hour : {0, 15}, loc : {"UTC", "Local"}] :
        t.day <= DaysIn(t.month, t.year)}

\* time.Date(y, m, d, 0, 0, 0, 0, time.UTC)
DateUTC(y, m, dd) ==
    [year |-> y, month |-> m, day |-> dd, hour |-> 0, loc |-> "UTC"]

\* Date{}: the zero time.Time, January 1 of year 1, 00:00 UTC.
ZeroDate == DateUTC(1, 1, 1)

----------------------------------------------------------------------------
(* time.Time.Format and time.Parse with dateLayout                         *)

\* The layout "2006-1-2": month and day without padding.
dateLayoutUnpadded == <<"2006", "-", "1", "-", "2">>

\* dateLayout = "2006-01-02" as the time package reads it: the long year
\* (stdLongYear), the zero-padded month (stdZeroMonth) and the zero-padded
\* day (stdZeroDay), with a literal "-" between them.
dateLayout == <<"2006", "-", "01", "-", "02">>

\* One element of the layout, formatted for t.  The elements the time
\* package knows here: "2006", "01" and "02", and "1" and "2" (stdNumMonth,
\* stdDay: month and day without padding); anything else is a literal.
FormatPiece(piece, t) ==
    CASE piece = "2006" -> AppendInt(t.year, 4)
      [] piece = "01" -> AppendInt(t.month, 2)
      [] piece = "02" -> AppendInt(t.day, 2)
      [] piece = "1" -> AppendInt(t.month, 0)
      [] piece = "2" -> AppendInt(t.day, 0)
      [] OTHER -> <<piece>>

RECURSIVE Format(_, _)
Format(t, layout) ==
    IF layout = <<>> THEN <<>>
    ELSE FormatPiece(Head(layout), t) \o Format(t, Tail(layout))

\* time.getnum(s, fixed): a one- or two-digit number at the head of s; with
\* fixed, two digits are required.
GetNum(s, fixed) ==
    IF ~IsDigit(s, 1) THEN [ok |-> FALSE, n |-> 0, rest |-> s]
    ELSE IF ~IsDigit(s, 2)
         THEN (IF fixed THEN [ok |-> FALSE, n |-> 0, rest |-> s]
               ELSE [ok |-> TRUE, n |-> DigitVal(s[1]), rest |-> Tail(s)])
    ELSE [ok |-> TRUE, n |-> DigitVal(s[1]) * 10 + DigitVal(s[2]),
          rest |-> SubSeq(s, 3, Len(s))]

\* The parse state time.Parse threads through the layout: what is left of
\* the value, the fields read so far, and whether an error was met.
ParseStart(s) == [ok |-> TRUE, rest |-> s, year |-> 0, month |-> 0, day |-> 0]

ParseFail(st) == [st EXCEPT !.ok = FALSE]

\* One element of the layout, parsed off the head of st.rest.
ParsePiece(piece, st) ==
    IF ~st.ok THEN st
    ELSE CASE piece = "2006" ->
              \* stdLongYear: exactly four characters, all of them digits
              IF Len(st.rest) < 4 \/ ~IsDigit(st.rest, 1)
                 \/ ~AllDigits(SubSeq(st.rest, 1, 4))
              THEN ParseFail(st)
              ELSE [st EXCEPT !.year = NumVal(SubSeq(st.rest, 1, 4)),
                              !.rest = SubSeq(st.rest, 5, Len(st.rest))]
           [] piece \in {"01", "1"} ->
              \* stdZeroMonth: two digits; stdNumMonth: one or two; 1..12
              LET g == GetNum(st.rest, piece = "01") IN
              IF ~g.ok \/ g.n <= 0 \/ 12 < g.n THEN ParseFail(st)
              ELSE [st EXCEPT !.month = g.n, !.rest = g.rest]
           [] piece \in {"02", "2"} ->
              \* stdZeroDay: two digits; stdDay: one or two; the range is
              \* validated at the end
              LET g == GetNum(st.rest, piece = "02") IN
              IF ~g.ok THEN ParseFail(st)
              ELSE [st EXCEPT !.day = g.n, !.rest = g.rest]
           [] OTHER ->
              \* a literal of the layout must be the next character
              IF st.rest = <<>> \/ Head(st.rest) # piece THEN ParseFail(st)
              ELSE [st EXCEPT !.rest = Tail(st.rest)]

RECURSIVE ParseLayout(_, _)
ParseLayout(layout, st) ==
    IF layout = <<>> THEN st
    ELSE ParseLayout(Tail(layout), ParsePiece(Head(layout), st))

\* time.Parse(layout, s): [err, t].  After the layout, text left over is
\* an error ("extra text"), and so is a day the month does not have.
Parse(layout, s) ==
    LET st == ParseLayout(layout, ParseStart(s)) IN
    IF ~st.ok \/ st.rest # <<>>
       \/ st.day < 1 \/ st.day > DaysIn(st.month, st.year)
    THEN [err |-> "ParseError", t |-> ZeroDate]
    ELSE [err |-> "nil", t |-> DateUTC(st.year, st.month, st.day)]

----------------------------------------------------------------------------
(* encoding/json on a string                                               *)

Whitespace == {" ", "\t", "\n", "\r"}

RECURSIVE TrimLeft(_)
TrimLeft(s) ==
    IF s # <<>> /\ Head(s) \in Whitespace THEN TrimLeft(Tail(s)) ELSE s

RECURSIVE TrimRight(_)
TrimRight(s) ==
    IF s # <<>> /\ s[Len(s)] \in Whitespace
    THEN TrimRight(SubSeq(s, 1, Len(s) - 1)) ELSE s

TrimSpace(s) == TrimRight(TrimLeft(s))

RECURSIVE EscapeJSON(_)
EscapeJSON(s) ==
    IF s = <<>> THEN <<>>
    ELSE (IF Head(s) \in {QUOTE, BACKSLASH} THEN <<BACKSLASH, Head(s)>>
          ELSE <<Head(s)>>) \o EscapeJSON(Tail(s))

\* json.Marshal(s) for a string s
JSONMarshal(s) == <<QUOTE>> \o EscapeJSON(s) \o <<QUOTE>>

HexChars ==
    DigitChars \cup {"a", "b", "c", "d", "e", "f", "A", "B", "C", "D", "E", "F"}

\* The character \uXXXX names, for the four hex digits h: a digit
\* (U+0030..U+0039), the hyphen (U+002D), or some other character, for
\* which "?" stands.
UnicodeChar(h) ==
    IF h[1] = "0" /\ h[2] = "0" /\ h[3] = "3" /\ h[4] \in DigitChars THEN h[4]
    ELSE IF h[1] = "0" /\ h[2] = "0" /\ h[3] = "2" /\ h[4] \in {"d", "D"}
         THEN "-"
    ELSE "?"

\* The inside of a JSON string literal, unescaped: [ok, s].  A bare quote
\* ends the literal early, so what follows it is a syntax error.  The
\* escapes \b \f \r are not part of the model's alphabet.
RECURSIVE Unescape(_)
Unescape(s) ==
    IF s = <<>> THEN [ok |-> TRUE, s |-> <<>>]
    ELSE IF Head(s) = QUOTE THEN [ok |-> FALSE, s |-> <<>>]
    ELSE IF Head(s) = BACKSLASH THEN
        IF Len(s) >= 6 /\ s[2] = "u"
           /\ \A i \in 3..6 : s[i] \in HexChars
        THEN LET r == Unescape(SubSeq(s, 7, Len(s)))
             IN [ok |-> r.ok, s |-> <<UnicodeChar(SubSeq(s, 3, 6))>> \o r.s]
        ELSE IF Len(s) < 2 \/ s[2] \notin {QUOTE, BACKSLASH, "/", "n", "t"}
        THEN [ok |-> FALSE, s |-> <<>>]
        ELSE LET c == CASE s[2] = "n" -> "\n" [] s[2] = "t" -> "\t"
                        [] OTHER -> s[2]
                 r == Unescape(SubSeq(s, 3, Len(s)))
             IN [ok |-> r.ok, s |-> <<c>> \o r.s]
    ELSE LET r == Unescape(Tail(s)) IN [ok |-> r.ok, s |-> <<Head(s)>> \o r.s]

\* A JSON value that is valid and not a string: a number, a literal, an
\* empty object or array.
IsOtherJSON(v) ==
    \/ v \in {<<"t", "r", "u", "e">>, <<"f", "a", "l", "s", "e">>,
              <<"{", "}">>, <<"[", "]">>}
    \/ /\ v # <<>>
       /\ AllDigits(v)
       /\ (Len(v) = 1 \/ Head(v) # "0")

\* json.Unmarshal(value, &s) for a string s that holds cur: [err, s].
\* null leaves s alone and is no error.
JSONUnmarshal(val, cur) ==
    LET v == TrimSpace(val) IN
    IF v = <<"n", "u", "l", "l">> THEN [err |-> "nil", s |-> cur]
    ELSE IF Len(v) >= 2 /\ Head(v) = QUOTE /\ v[Len(v)] = QUOTE THEN
        LET r == Unescape(SubSeq(v, 2, Len(v) - 1)) IN
        IF r.ok THEN [err |-> "nil", s |-> r.s]
        ELSE [err |-> "SyntaxError", s |-> cur]
    ELSE IF IsOtherJSON(v) THEN [err |-> "UnmarshalTypeError", s |-> cur]
    ELSE [err |-> "SyntaxError", s |-> cur]

----------------------------------------------------------------------------
(* Date.MarshalJSON and Date.UnmarshalJSON                                 *)

\* func (d *Date) MarshalJSON() ([]byte, error)
MarshalJSON(recv) ==
    LET s == Format(recv, dateLayout) IN
    [bytes |-> JSONMarshal(s), err |-> "nil"]

\* The receiver is assigned before the parse error is looked at.
UnmarshalJSONAssignsFirst(recv, val) ==
    LET j == JSONUnmarshal(val, <<>>) IN
    IF j.err # "nil" THEN [d |-> recv, err |-> j.err]
    ELSE LET p == Parse(dateLayout, j.s) IN [d |-> p.t, err |-> p.err]

\* func (d *Date) UnmarshalJSON(value []byte) error
UnmarshalJSON(recv, val) ==
    LET j == JSONUnmarshal(val, <<>>) IN
    IF j.err # "nil" THEN [d |-> recv, err |-> j.err]
    ELSE LET p == Parse(dateLayout, j.s) IN
         IF p.err # "nil" THEN [d |-> recv, err |-> p.err]
         ELSE [d |-> p.t, err |-> "nil"]

----------------------------------------------------------------------------
(* The JSON texts given to UnmarshalJSON                                   *)

\* the spec's example
TextISO == <<QUOTE, "2", "0", "1", "2", "-", "0", "3", "-", "2", "6", QUOTE>>

\* wrong separators
TextSlashes == <<QUOTE, "0", "3", "/", "2", "6", "/", "2", "0", "1", "2", QUOTE>>

\* month not zero-padded
TextNoPadding == <<QUOTE, "2", "0", "1", "2", "-", "3", "-", "2", "6", QUOTE>>

\* a time of day after the date
TextWithTime == <<QUOTE, "2", "0", "1", "2", "-", "0", "3", "-", "2", "6", "T", "0", "0", ":", "0", "0", ":", "0", "0", QUOTE>>

\* JSON white space around the string
TextPadded == <<" ", QUOTE, "2", "0", "1", "2", "-", "0", "3", "-", "2", "6", QUOTE, " ">>

\* the pattern, but no day of the calendar
TextFeb30 == <<QUOTE, "2", "0", "1", "2", "-", "0", "2", "-", "3", "0", QUOTE>>

\* February 29 of a year that is not leap
TextFeb29 == <<QUOTE, "2", "1", "0", "0", "-", "0", "2", "-", "2", "9", QUOTE>>

\* the pattern, month out of range
TextMonth13 == <<QUOTE, "2", "0", "1", "2", "-", "1", "3", "-", "0", "1", QUOTE>>

\* the pattern, day zero
TextDay00 == <<QUOTE, "2", "0", "1", "2", "-", "0", "3", "-", "0", "0", QUOTE>>

\* two-digit year
TextShortYear == <<QUOTE, "1", "2", "-", "0", "3", "-", "2", "6", QUOTE>>

\* five-digit year
TextLongYear == <<QUOTE, "1", "0", "0", "0", "0", "-", "0", "1", "-", "0", "1", QUOTE>>

\* a sign where the year starts
TextSigned == <<QUOTE, "-", "0", "0", "1", "-", "0", "1", "-", "0", "1", QUOTE>>

\* day not zero-padded
TextShortDay == <<QUOTE, "2", "0", "1", "2", "-", "0", "3", "-", "2", QUOTE>>

\* the empty string
TextEmpty == <<QUOTE, QUOTE>>

\* escaped slashes
TextEscaped == <<QUOTE, "2", "0", "1", "2", BACKSLASH, "/", "0", "3", BACKSLASH, "/", "2", "6", QUOTE>>

\* the hyphens written as -: the same string as TextISO
TextUnicode == <<QUOTE, "2", "0", "1", "2", BACKSLASH, "u", "0", "0", "2", "d", "0", "3", BACKSLASH, "u", "0", "0", "2", "D", "2", "6", QUOTE>>

\* an escaped character that is no part of a date
TextUnicodeOther == <<QUOTE, "2", "0", "1", "2", BACKSLASH, "u", "2", "0", "1", "3", "0", "3", "-", "2", "6", QUOTE>>

\* no closing quote
TextUnclosed == <<QUOTE, "2", "0", "1", "2", "-", "0", "3", "-", "2", "6">>

\* no quotes: not JSON
TextBare == <<"2", "0", "1", "2", "-", "0", "3", "-", "2", "6">>

\* a JSON number
TextNumber == <<"2", "0", "1", "2", "0", "3", "2", "6">>

\* JSON null
TextNull == <<"n", "u", "l", "l">>

\* a JSON boolean
TextTrue == <<"t", "r", "u", "e">>

\* a JSON object
TextObject == <<"{", "}">>

\* no input at all
TextNothing == <<>>

\* The values UnmarshalJSON is called with, besides what MarshalJSON
\* returned.
Inputs ==
    {TextISO, TextSlashes, TextNoPadding, TextWithTime,
     TextPadded, TextFeb30, TextFeb29, TextMonth13,
     TextDay00, TextShortYear, TextLongYear, TextSigned,
     TextShortDay, TextEmpty, TextEscaped, TextUnclosed,
     TextBare, TextNumber, TextNull, TextTrue,
     TextObject, TextNothing,
     TextUnicode, TextUnicodeOther}

----------------------------------------------------------------------------
(* fmt.Printf with the verbs %s and %q                                     *)

\* The characters of cs as one string.
RECURSIVE Str(_)
Str(cs) == IF cs = <<>> THEN "" ELSE Head(cs) \o Str(Tail(cs))

\* The body of a Go quoted string: quote and backslash are escaped.
RECURSIVE EscapeGo(_)
EscapeGo(cs) ==
    IF cs = <<>> THEN <<>>
    ELSE (IF Head(cs) \in {QUOTE, BACKSLASH} THEN <<BACKSLASH, Head(cs)>>
          ELSE <<Head(cs)>>) \o EscapeGo(Tail(cs))

\* The verb %q: strconv.Quote
Quote(cs) == QUOTE \o Str(EscapeGo(cs)) \o QUOTE

\* A Printf operand with its Go type.
Int64(n) == [type |-> "int64", int |-> n, str |-> <<>>]

String(cs) == [type |-> "string", int |-> 0, str |-> cs]

\* The verb %s: a string as it is; an integer is no operand of %s, and fmt
\* writes %!s(int64=N) for it.
FormatS(arg) ==
    IF arg.type = "string" THEN Str(arg.str)
    ELSE "%!s(int64=" \o Str(AppendInt(arg.int, 0)) \o ")"

\* The verb %q, which list.go gives strings only.
FormatQ(arg) == Quote(arg.str)

\* fmt.Sprintf(format, args...): the format is given as its literal pieces
\* and its verbs, each verb taking the next argument.
RECURSIVE Sprintf(_, _)
Sprintf(format, args) ==
    IF format = <<>> THEN ""
    ELSE IF Head(format) = "%s"
         THEN FormatS(Head(args)) \o Sprintf(Tail(format), Tail(args))
    ELSE IF Head(format) = "%q"
         THEN FormatQ(Head(args)) \o Sprintf(Tail(format), Tail(args))
    ELSE Head(format) \o Sprintf(Tail(format), args)

\* The format strings of list.go.
OrganizationFormat == <<"Organization", " ", "%s", " ", "%q", "\n">>

WorkspaceFormat == <<"Workspace", " ", "%s", " ", "%q", "\n">>

ProjectFormat == <<"Project", " ", "%s", ":", " ", "%q", "\n">>

TaskFormat == <<"Task", " ", "%s", " ", "%q", "\n">>

SectionFormat == <<"Section", " ", "%s", " ", "%q", "\n">>

----------------------------------------------------------------------------
(* The API client, as the listing functions see it                         *)

\* The longest page the client returns.
MaxResults == 2

\* HasID: ID int64
IDs == {7, 42}

Names == {<<"a">>, <<"b", QUOTE>>}

\* A workspace, project, task or section as list.go reads it: ID (HasID),
\* Name (HasName) and, for a workspace, IsOrganization.
Objects == [ID : IDs, Name : Names, IsOrganization : BOOLEAN]

Pages == UNION {[1..n -> Objects] : n \in 0..MaxResults}

Errors == {"401 Not Authorized", "429 Rate Limited"}

\* What the client answers: the first page, its continuation token, the
\* error, and the page a call with that token would return.  With no token
\* there is no further page.
Clients ==
    {c \in [results : Pages, nextPage : {"", "offset1"},
            more : [1..1 -> Objects] \cup {<<>>},
            err : Errors \cup {"nil"}] :
        (c.nextPage = "") <=> (c.more = <<>>)}

\* c.Workspaces(), w.Projects(client), p.Tasks(client), p.Sections(client):
\* what the one call returns.
FirstPage(c) == [results |-> c.results, nextPage |-> c.nextPage, err |-> c.err]

\* The lines printed for a page, one Printf per result, in order.
PrintAll(format, page) ==
    [i \in 1..Len(page) |-> Sprintf(format, <<Int64(page[i].ID), String(page[i].Name)>>)]

----------------------------------------------------------------------------
(* The listing functions: each yields the error returned, the lines        *)
(* printed and the client calls made.                                      *)

\* The two labels exchanged.
ListWorkspacesLabelsSwapped(c) ==
    LET r == FirstPage(c) IN
    IF r.err # "nil"
    THEN [ret |-> r.err, printed |-> <<>>, calls |-> <<"Workspaces">>]
    ELSE [ret |-> "nil",
          printed |->
            [i \in 1..Len(r.results) |->
                IF ~r.results[i].IsOrganization
                THEN Sprintf(OrganizationFormat,
                             <<Int64(r.results[i].ID), String(r.results[i].Name)>>)
                ELSE Sprintf(WorkspaceFormat,
                             <<Int64(r.results[i].ID), String(r.results[i].Name)>>)],
          calls |-> <<"Workspaces">>]

\* func ListWorkspaces(c *asana.Client) error
ListWorkspaces(c) ==
    LET r == FirstPage(c) IN
    IF r.err # "nil"
    THEN [ret |-> r.err, printed |-> <<>>, calls |-> <<"Workspaces">>]
    ELSE [ret |-> "nil",
          printed |->
            [i \in 1..Len(r.results) |->
                IF r.results[i].IsOrganization
                THEN Sprintf(OrganizationFormat,
                             <<Int64(r.results[i].ID), String(r.results[i].Name)>>)
                ELSE Sprintf(WorkspaceFormat,
                             <<Int64(r.results[i].ID), String(r.results[i].Name)>>)],
          calls |-> <<"Workspaces">>]

\* The loop starts at the second result.
ListProjectsSkipsFirst(c) ==
    LET r == FirstPage(c) IN
    IF r.err # "nil"
    THEN [ret |-> r.err, printed |-> <<>>, calls |-> <<"Projects">>]
    ELSE [ret |-> "nil",
          printed |-> PrintAll(ProjectFormat, IF r.results = <<>> THEN <<>>
                                              ELSE Tail(r.results)),
          calls |-> <<"Projects">>]

\* func ListProjects(client *asana.Client, w *asana.Workspace) error
ListProjects(c) ==
    LET r == FirstPage(c) IN
    IF r.err # "nil"
    THEN [ret |-> r.err, printed |-> <<>>, calls |-> <<"Projects">>]
    ELSE [ret |-> "nil",
          printed |-> PrintAll(ProjectFormat, r.results),
          calls |-> <<"Projects">>]

\* The continuation token is followed: a second call, and its page printed.
ListTasksFollowsToken(c) ==
    LET r == FirstPage(c) IN
    IF r.err # "nil"
    THEN [ret |-> r.err, printed |-> <<>>, calls |-> <<"Tasks">>]
    ELSE IF r.nextPage = ""
    THEN [ret |-> "nil", printed |-> PrintAll(TaskFormat, r.results),
          calls |-> <<"Tasks">>]
    ELSE [ret |-> "nil", printed |-> PrintAll(TaskFormat, r.results \o c.more),
          calls |-> <<"Tasks", "Tasks">>]

\* func ListTasks(client *asana.Client, p *asana.Project) error
ListTasks(c) ==
    LET r == FirstPage(c) IN
    IF r.err # "nil"
    THEN [ret |-> r.err, printed |-> <<>>, calls |-> <<"Tasks">>]
    ELSE [ret |-> "nil",
          printed |-> PrintAll(TaskFormat, r.results),
          calls |-> <<"Tasks">>]

\* The error is not looked at: the results are printed and nil returned.
ListSectionsIgnoresError(c) ==
    LET r == FirstPage(c) IN
    [ret |-> "nil",
     printed |-> PrintAll(SectionFormat, r.results),
     calls |-> <<"Sections">>]

\* func ListSections(client *asana.Client, p *asana.Project) error
ListSections(c) ==
    LET r == FirstPage(c) IN
    IF r.err # "nil"
    THEN [ret |-> r.err, printed |-> <<>>, calls |-> <<"Sections">>]
    ELSE [ret |-> "nil",
          printed |-> PrintAll(SectionFormat, r.results),
          calls |-> <<"Sections">>]

----------------------------------------------------------------------------
(* The entities: structs built from the mixins, encoded and decoded by     *)
(* encoding/json as their field tags say                                   *)

\* The json keys of a struct type, embedded mixins flattened.  (The
\* embedded type expandable is declared in no file of src/.)
FieldsOf(k) ==
    CASE k = "HasID" -> {"id"}
      [] k = "HasName" -> {"name"}
      [] k = "HasParent" -> {"parent"}
      [] k = "HasCreated" -> {"created_at"}
      [] k = "HasDates" -> {"created_at", "modified_at"}
      [] k = "HasNotes" -> {"notes"}
      [] k = "HasWorkspace" -> {"workspace"}
      [] k = "HasHearts" -> {"hearted", "hearts", "num_hearts"}
      [] k = "HasFollowers" -> {"followers"}
      [] k = "HasColor" -> {"color"}
      [] k = "Attachment" -> {"id", "name", "parent", "created_at",
                              "download_url", "host", "view_url"}
      [] k = "Team" -> {"id", "name"}

Kinds ==
    {"HasID", "HasName", "HasParent", "HasCreated", "HasDates", "HasNotes",
     "HasWorkspace", "HasHearts", "HasFollowers", "HasColor", "Attachment",
     "Team"}

\* The Go type of a field.
TypeOf(f) ==
    CASE f \in {"id", "num_hearts"} -> "int"
      [] f \in {"name", "notes", "color", "download_url", "host",
                "view_url"} -> "string"
      [] f \in {"parent", "created_at", "modified_at", "workspace"} -> "pointer"
      [] f \in {"hearts", "followers"} -> "slice"
      [] f = "hearted" -> "bool"

\* The fields whose comment starts "Read-only."
ReadOnly ==
    {"id", "name", "parent", "created_at", "modified_at", "hearts",
     "num_hearts", "followers", "download_url", "host", "view_url"}

\* The zero value of a Go type.
ZeroOf(type) ==
    CASE type = "int" -> "0"
      [] type = "string" -> ""
      [] type = "pointer" -> "nil"
      [] type = "slice" -> "nil"
      [] type = "bool" -> "false"

\* omitempty: false, 0, a nil pointer, and any empty slice or string.
IsEmptyValue(v) == v \in {"0", "", "nil", "[]", "false"}

\* T{}: every field at its zero value.
ZeroEntity(k) == [f \in FieldsOf(k) |-> ZeroOf(TypeOf(f))]

\* A value of a Go type that is not its zero value.
NonZeroOf(type) ==
    CASE type = "int" -> "7"
      [] type = "string" -> "x"
      [] type = "pointer" -> "&{}"
      [] type = "slice" -> "[u]"
      [] type = "bool" -> "true"

\* The objects a response holds for a struct type: each key absent, or
\* present with a value; an array is present empty or with an element.
Payloads(k) ==
    {[f \in S |-> IF TypeOf(f) = "slice" THEN array ELSE NonZeroOf(TypeOf(f))] :
        S \in SUBSET FieldsOf(k), array \in {"[]", "[u]"}}

\* json.Unmarshal(payload, &e): the keys present are stored, the others
\* are left alone.
JSONDecode(e, payload) ==
    [f \in DOMAIN e |-> IF f \in DOMAIN payload THEN payload[f] ELSE e[f]]

\* json.Marshal(e): every field tagged omitempty is written unless its
\* value is empty.
JSONEncode(e) ==
    [f \in {g \in DOMAIN e : ~IsEmptyValue(e[g])} |-> e[f]]

----------------------------------------------------------------------------
(* Idle values of the parts a specification does not exercise              *)

CodecIdle ==
    /\ d = ZeroDate
    /\ out = <<>>
    /\ enc = ZeroDate
    /\ value = <<>>
    /\ err = "nil"
    /\ old = ZeroDate
    /\ dpc = "new"

ListIdle ==
    /\ client = [results |-> <<>>, nextPage |-> "", more |-> <<>>,
                 err |-> "nil"]
    /\ op = "none"
    /\ printed = <<>>
    /\ ret = "nil"
    /\ calls = <<>>

EntityIdle ==
    /\ kind = "Team"
    /\ entity = ZeroEntity("Team")
    /\ body = <<>>
    /\ epc = "new"

----------------------------------------------------------------------------
(* The codec as a state machine                                            *)

\* A Date the caller built, no call made yet.
CodecInit ==
    /\ d \in Dates \cup {ZeroDate}
    /\ out = <<>>
    /\ enc = d
    /\ value = <<>>
    /\ err = "nil"
    /\ old = d
    /\ dpc = "new"
    /\ ListIdle
    /\ EntityIdle

\* json.Marshal(&d) calls d.MarshalJSON().
CallMarshalJSON ==
    /\ LET r == MarshalJSON(d) IN
        /\ out' = r.bytes
        /\ err' = r.err
    /\ enc' = d
    /\ value' = <<>>
    /\ old' = d
    /\ dpc' = "marshalled"
    /\ UNCHANGED <<d, listVars, entityVars>>

\* json.Unmarshal(value, &d) calls d.UnmarshalJSON(value); the value is what
\* MarshalJSON returned or any other text.
CallUnmarshalJSON ==
    /\ \E val \in Inputs \cup (IF out # <<>> THEN {out} ELSE {}) :
        LET r == UnmarshalJSON(d, val) IN
            /\ value' = val
            /\ d' = r.d
            /\ err' = r.err
    /\ old' = d
    /\ dpc' = "unmarshalled"
    /\ UNCHANGED <<out, enc, listVars, entityVars>>

CodecNext == CallMarshalJSON \/ CallUnmarshalJSON

CodecSpec == CodecInit /\ [][CodecNext]_vars

----------------------------------------------------------------------------
(* The listing functions as a state machine                                *)

\* A client and what it will answer; no listing function has run.
ListInit ==
    /\ client \in Clients
    /\ op = "none"
    /\ printed = <<>>
    /\ ret = "nil"
    /\ calls = <<>>
    /\ CodecIdle
    /\ EntityIdle

CallListWorkspaces ==
    /\ op = "none"
    /\ LET r == ListWorkspaces(client) IN
        /\ printed' = r.printed
        /\ ret' = r.ret
        /\ calls' = r.calls
    /\ op' = "ListWorkspaces"
    /\ UNCHANGED <<client, codecVars, entityVars>>

CallListProjects ==
    /\ op = "none"
    /\ LET r == ListProjects(client) IN
        /\ printed' = r.printed
        /\ ret' = r.ret
        /\ calls' = r.calls
    /\ op' = "ListProjects"
    /\ UNCHANGED <<client, codecVars, entityVars>>

CallListTasks ==
    /\ op = "none"
    /\ LET r == ListTasks(client) IN
        /\ printed' = r.printed
        /\ ret' = r.ret
        /\ calls' = r.calls
    /\ op' = "ListTasks"
    /\ UNCHANGED <<client, codecVars, entityVars>>

CallListSections ==
    /\ op = "none"
    /\ LET r == ListSections(client) IN
        /\ printed' = r.printed
        /\ ret' = r.ret
        /\ calls' = r.calls
    /\ op' = "ListSections"
    /\ UNCHANGED <<client, codecVars, entityVars>>

ListNext ==
    \/ CallListWorkspaces
    \/ CallListProjects
    \/ CallListTasks
    \/ CallListSections

ListSpec == ListInit /\ [][ListNext]_vars

----------------------------------------------------------------------------
(* The entities as a state machine                                         *)

\* A freshly constructed struct.
EntityInit ==
    /\ kind \in Kinds
    /\ entity = ZeroEntity(kind)
    /\ body = <<>>
    /\ epc = "new"
    /\ CodecIdle
    /\ ListIdle

\* A response is decoded into the entity.
DecodeResponse ==
    /\ epc \in {"new", "decoded"}
    /\ \E payload \in Payloads(kind) : entity' = JSONDecode(entity, payload)
    /\ epc' = "decoded"
    /\ UNCHANGED <<kind, body, codecVars, listVars>>

\* The entity is encoded as the body of a request.
EncodeRequest ==
    /\ epc \in {"new", "decoded"}
    /\ body' = JSONEncode(entity)
    /\ epc' = "encoded"
    /\ UNCHANGED <<kind, entity, codecVars, listVars>>

EntityNext == DecodeResponse \/ EncodeRequest

EntitySpec == EntityInit /\ [][EntityNext]_vars

----------------------------------------------------------------------------
(* Properties of the Date codec, checked under CodecSpec                   *)

\* s is YYYY-MM-DD: four digits, "-", two digits, "-", two digits.
IsYMD(s) ==
    /\ Len(s) = 10
    /\ \A i \in {1, 2, 3, 4, 6, 7, 9, 10} : s[i] \in DigitChars
    /\ s[5] = "-"
    /\ s[8] = "-"

\* v is a JSON string literal: it starts and ends with a quote.
IsStringLiteral(v) == Len(v) >= 2 /\ v[1] = QUOTE /\ v[Len(v)] = QUOTE

\* The string a JSON string literal denotes.
ContentOf(v) == Unescape(SubSeq(v, 2, Len(v) - 1)).s

\* v is a JSON string literal that denotes a string YYYY-MM-DD.
IsDateLiteral(v) == IsStringLiteral(v) /\ IsYMD(ContentOf(v))

\* t holds a calendar date and nothing else: midnight, UTC.
IsCalendarDate(t) == t.hour = 0 /\ t.loc = "UTC"

\* The last call decoded what MarshalJSON returned for enc.
RoundTripped == dpc = "unmarshalled" /\ out # <<>> /\ value = out

\* C1: for every calendar date, encoding it and decoding the text produced
\* succeeds and yields a Date equal to the original.
C1_RoundTrip ==
    (RoundTripped /\ IsCalendarDate(enc)) => (err = "nil" /\ d = enc)

\* C2: UnmarshalJSON succeeds only on a JSON string that is exactly
\* YYYY-MM-DD; anything that is not a JSON string, and the strings
\* 03/26/2012, 2012-3-26 and 2012-03-26T00:00:00, are errors.
C2_DecodeRejects ==
    dpc = "unmarshalled" =>
        /\ ~IsDateLiteral(TrimSpace(value)) => err # "nil"
        /\ value \in {TextSlashes, TextNoPadding, TextWithTime} => err # "nil"
        /\ ~IsStringLiteral(TrimSpace(value)) => err # "nil"
        /\ value \in {TextBare, TextNumber, TextTrue, TextObject, TextNull,
                      TextNothing, TextUnclosed} => err # "nil"

\* C2's case: a string with a time of day after the date was rejected.
C2_Witness ==
    dpc = "unmarshalled" /\ value = TextWithTime /\ err = "ParseError"

\* C8: MarshalJSON returns a JSON string YYYY-MM-DD, four-digit year and
\* two-digit month and day of the date and nothing else; for 2012-03-26 it
\* returns "2012-03-26", and that text decodes to 2012-03-26.
C8_EncodeForm ==
    /\ dpc = "marshalled" =>
        /\ err = "nil"
        /\ Len(out) = 12
        /\ IsDateLiteral(out)
        /\ NumVal(SubSeq(out, 2, 5)) = enc.year
        /\ NumVal(SubSeq(out, 7, 8)) = enc.month
        /\ NumVal(SubSeq(out, 10, 11)) = enc.day
        /\ (enc.year = 2012 /\ enc.month = 3 /\ enc.day = 26) => out = TextISO
    /\ (dpc = "unmarshalled" /\ value = TextISO) =>
        (err = "nil" /\ d = DateUTC(2012, 3, 26))

\* C10: when UnmarshalJSON returns an error the receiver keeps its value;
\* the receiver changes only on a successful decode.
C10_ErrorKeepsReceiver ==
    dpc = "unmarshalled" =>
        /\ err # "nil" => d = old
        /\ d # old => err = "nil"

\* C10's case: a failed decode into a receiver that is not the zero Date.
C10_Witness ==
    /\ dpc = "unmarshalled"
    /\ err = "ParseError"
    /\ old # ZeroDate
    /\ value = TextFeb30

----------------------------------------------------------------------------
(* Properties of the listing functions, checked under ListSpec             *)

\* The label list.go prints for an object listed by a function.
LabelOf(fn, o) ==
    CASE fn = "ListWorkspaces" ->
            (IF o.IsOrganization THEN "Organization" ELSE "Workspace")
      [] fn = "ListProjects" -> "Project"
      [] fn = "ListTasks" -> "Task"
      [] fn = "ListSections" -> "Section"

\* The identifier of o as the verb %s writes it.
IDText(o) == FormatS(Int64(o.ID))

\* The line <TypeLabel> <ID> <Quoted Name>.
UniformLine(fn, o) ==
    LabelOf(fn, o) \o " " \o IDText(o) \o " " \o Quote(o.Name) \o "\n"

\* The line as the function's own format string writes it.
LineOf(fn, o) ==
    LabelOf(fn, o) \o " " \o IDText(o)
        \o (IF fn = "ListProjects" THEN ":" ELSE "")
        \o " " \o Quote(o.Name) \o "\n"

Ran == op # "none"

\* C3: when the client's list call returns an error, the listing function
\* returns that error, prints nothing and makes no further call.
C3_ErrorPropagated ==
    (Ran /\ client.err # "nil") =>
        /\ ret = client.err
        /\ printed = <<>>
        /\ Len(calls) = 1

\* C3's case: the call failed although the client also handed back results.
C3_Witness ==
    /\ op = "ListSections"
    /\ client.err = "429 Rate Limited"
    /\ client.results # <<>>
    /\ ret = "429 Rate Limited"

\* C4: on success ListWorkspaces prints one line per workspace, in order,
\* labelled Organization when IsOrganization is true and Workspace otherwise.
C4_WorkspaceLabels ==
    (op = "ListWorkspaces" /\ client.err = "nil") =>
        /\ Len(printed) = Len(client.results)
        /\ \A i \in 1..Len(printed) :
            printed[i] =
                (IF client.results[i].IsOrganization THEN "Organization"
                 ELSE "Workspace")
                \o " " \o IDText(client.results[i])
                \o " " \o Quote(client.results[i].Name) \o "\n"

\* C4's case: an organization listed after a workspace.
C4_Witness ==
    /\ op = "ListWorkspaces"
    /\ client.err = "nil"
    /\ Len(client.results) = 2
    /\ ~client.results[1].IsOrganization
    /\ client.results[2].IsOrganization
    /\ Len(printed) = 2

\* C5: every line any of the four functions prints is
\* <TypeLabel> <ID> <Quoted Name>: one space between the parts and nothing
\* else.
C5_UniformFormat ==
    (Ran /\ client.err = "nil") =>
        \A i \in 1..Len(printed) :
            i <= Len(client.results) =>
                printed[i] = UniformLine(op, client.results[i])

\* C6: a listing function makes exactly one call whatever the continuation
\* token; the token is dropped and only the first page is printed.
C6_SingleCall ==
    Ran =>
        /\ Len(calls) = 1
        /\ client.err = "nil" =>
            /\ Len(printed) = Len(client.results)
            /\ \A i \in 1..Len(printed) :
                printed[i] = LineOf(op, client.results[i])

\* C6's case: the token announces a further page that holds a result.
C6_Witness ==
    /\ op = "ListTasks"
    /\ client.err = "nil"
    /\ client.nextPage # ""
    /\ client.more # <<>>
    /\ Len(printed) = Len(client.results)

\* C7: on success with n results a listing function prints n lines, the
\* i-th for the i-th result, and returns no error; with no result it prints
\* nothing and returns no error.
C7_OneLinePerResult ==
    (Ran /\ client.err = "nil") =>
        /\ ret = "nil"
        /\ Len(printed) = Len(client.results)
        /\ \A i \in 1..Len(client.results) :
            printed[i] = LineOf(op, client.results[i])
        /\ client.results = <<>> => printed = <<>>

\* C7's case: two different results, printed in their order.
C7_Witness ==
    /\ op = "ListProjects"
    /\ client.err = "nil"
    /\ Len(client.results) = 2
    /\ client.results[1] # client.results[2]
    /\ Len(printed) = 2
    /\ ret = "nil"

----------------------------------------------------------------------------
(* Properties of the entities, checked under EntitySpec                    *)

\* C9: no field documented as read-only is in the body encoded for a
\* request, whatever value the entity holds for it.
C9_ReadOnlyNeverEncoded ==
    epc = "encoded" => \A f \in DOMAIN body : f \notin ReadOnly

====
